---- MODULE Spec2Model ----
(***************************************************************************)
(* Model of app_redis.py: a Streamlit chat page whose per-browser session  *)
(* state holds a session id (minted with uuid4), an "initialized" flag and *)
(* the displayed message list, and whose chat turns are answered by a      *)
(* RunnableWithMessageHistory chain that keeps its history in Redis under  *)
(* a key derived from the session id.                                      *)
(*                                                                         *)
(* Streamlit runs the whole script once per widget event of a UI session.  *)
(* One action below is one such script run (or, for a chat turn, the part  *)
(* of the run before and the part after the blocking chain invocation).    *)
(* Every UI session has its own st.session_state; Redis is shared.         *)
(***************************************************************************)
EXTENDS Naturals, Sequences, FiniteSets, TLC

(***************************************************************************)
(* Bounds of the model.                                                    *)
(***************************************************************************)
\* accepted chat turns over all UI sessions
MaxSubmits == 2
\* longest string handed to the history lookup when it is exercised alone
MaxTokenLen == 4

\* browser sessions (each has its own st.session_state)
Sessions == {"tab1", "tab2"}
\* values str(uuid.uuid4()) may return; uuid4 is random, so any of them, any time
UUIDs == {"u1", "u2"}
\* texts st.chat_input may deliver (the widget never delivers the empty string)
Texts == {"hello", "hi"}
\* contents the model may answer with
Outputs == {"ok", ""}
\* characters of the strings handed to the history lookup when exercised alone
Alphabet == {"a", "-", ":"}

(***************************************************************************)
(* Python values held in st.session_state["session_id"]: the bool False    *)
(* (line 77) or a str (line 124).  A value is a pair <<type, text>>.       *)
(***************************************************************************)
PyFalse == <<"bool", "False">>
PyStr(s) == <<"str", s>>
\* Python truthiness: False and "" are falsy, every other str is truthy
Truthy(v) == IF v[1] = "bool" THEN v[2] = "True" ELSE v[2] # ""

REDIS_URL == "redis://localhost:6379/0"
key_prefix == "message_store"

VARIABLES
    session_initialized, \* st.session_state["session_initialized"], per UI session
    session_id,          \* st.session_state["session_id"], per UI session
    messages,            \* st.session_state["messages"], per UI session
    pc,                  \* where the script run of a UI session stands
    inflight,            \* the chain invocation a UI session is blocked in
    out,                 \* what the latest script run of a UI session emitted
    redis,               \* the Redis store: key -> list of stored messages
    opened,              \* history handles get_redis_message_history has returned
    log,                 \* per session id value: the chat turns persisted under it
    ev,                  \* the latest step: UI session, operation, input
    nSubmits,            \* accepted chat turns so far (bounds the model)
    arg,                 \* stand-alone lookup: the argument
    result               \* stand-alone lookup: what the call produced

vars == <<session_initialized, session_id, messages, pc, inflight, out, redis,
          opened, log, ev, nSubmits, arg, result>>

app_vars == <<session_initialized, session_id, messages, pc, inflight, out,
              redis, opened, log, ev, nSubmits>>

ChatMessage(role, content) == [role |-> role, content |-> content]
HumanMessage(content) == [type |-> "human", content |-> content]
AIMessage(content) == [type |-> "ai", content |-> content]

NoCall == [question |-> "", key |-> "", token |-> PyFalse, history |-> <<>>]
Quiet == [warnings |-> 0, invokes |-> 0, raised |-> FALSE]
NoEvent == [sid |-> "", op |-> "load", input |-> ""]
NotCalled == [kind |-> "none"]

\* variant: the key is built without the session id
RedisKey_prefix_only(sid) == key_prefix \o ":"

\* RedisChatMessageHistory.key: the prefix, a colon, the session id verbatim
RedisKey(sid) == key_prefix \o ":" \o sid[2]

\* RedisChatMessageHistory(session_id, url=REDIS_URL): stores its arguments
RedisChatMessageHistory(sid, url) ==
    [kind |-> "history", session_id |-> sid, url |-> url, key |-> RedisKey(sid)]

\* variant: the lookup refuses a falsy session id
get_redis_message_history_checked(sid) ==
    IF Truthy(sid) THEN RedisChatMessageHistory(sid, REDIS_URL)
    ELSE [kind |-> "error", session_id |-> sid, url |-> REDIS_URL, key |-> "InvalidArgument"]

get_redis_message_history(sid) == RedisChatMessageHistory(sid, REDIS_URL)

\* variant: "not a or b", the precedence slip the comment at lines 107-108 warns of
SessionValid_precedence(initialized, sid) ==
    IF ~initialized \/ Truthy(sid) THEN FALSE ELSE TRUE

\* the test of session_valid on given values of the two fields
SessionValid(initialized, sid) ==
    IF ~initialized \/ ~Truthy(sid) THEN FALSE ELSE TRUE

session_valid(s) == SessionValid(session_initialized[s], session_id[s])

\* the messages stored under a key (an absent key reads as the empty list)
\* utils_redis.init_conversation (line 142): on the first script run it puts an
\* empty message list in st.session_state; later runs keep the list
init_conversation == <<>>

Stored(k) == IF k \in DOMAIN redis THEN redis[k] ELSE <<>>

Put(f, k, v) == IF k \in DOMAIN f THEN [f EXCEPT ![k] = v] ELSE f @@ (k :> v)

Init ==
    /\ session_initialized = [s \in Sessions |-> FALSE]
    /\ session_id = [s \in Sessions |-> PyFalse]
    /\ messages = [s \in Sessions |-> init_conversation]
    /\ pc = [s \in Sessions |-> "idle"]
    /\ inflight = [s \in Sessions |-> NoCall]
    /\ out = [s \in Sessions |-> Quiet]
    /\ redis = <<>>
    /\ opened = {}
    /\ log = <<>>
    /\ ev = NoEvent
    /\ nSubmits = 0
    /\ arg = PyFalse
    /\ result = NotCalled

\* variant: a new session id also empties the displayed list
Mint_clears(s, u) ==
    /\ pc[s] = "idle"
    /\ session_id' = [session_id EXCEPT ![s] = PyStr(u)]
    /\ session_initialized' = [session_initialized EXCEPT ![s] = TRUE]
    /\ messages' = [messages EXCEPT ![s] = <<>>]
    /\ out' = [out EXCEPT ![s] = Quiet]
    /\ ev' = [sid |-> s, op |-> "mint", input |-> u]
    /\ UNCHANGED <<pc, inflight, redis, opened, log, nSubmits, arg, result>>

\* variant: the button toggles the flag instead of setting it
Mint_toggles(s, u) ==
    /\ pc[s] = "idle"
    /\ session_id' = [session_id EXCEPT ![s] = PyStr(u)]
    /\ session_initialized' = [session_initialized EXCEPT ![s] = ~@]
    /\ out' = [out EXCEPT ![s] = Quiet]
    /\ ev' = [sid |-> s, op |-> "mint", input |-> u]
    /\ UNCHANGED <<messages, pc, inflight, redis, opened, log, nSubmits, arg, result>>

\* "new session" button: lines 121-126, then the rest of the script with no input
Mint(s, u) ==
    /\ pc[s] = "idle"
    /\ session_id' = [session_id EXCEPT ![s] = PyStr(u)]
    /\ session_initialized' = [session_initialized EXCEPT ![s] = TRUE]
    /\ out' = [out EXCEPT ![s] = Quiet]
    /\ ev' = [sid |-> s, op |-> "mint", input |-> u]
    /\ UNCHANGED <<messages, pc, inflight, redis, opened, log, nSubmits, arg, result>>

\* variant: clearing wipes the whole session state, not only the messages
Clear_resets_session(s) ==
    /\ pc[s] = "idle"
    /\ messages' = [messages EXCEPT ![s] = <<>>]
    /\ session_id' = [session_id EXCEPT ![s] = PyFalse]
    /\ session_initialized' = [session_initialized EXCEPT ![s] = FALSE]
    /\ out' = [out EXCEPT ![s] = Quiet]
    /\ ev' = [sid |-> s, op |-> "clear", input |-> ""]
    /\ UNCHANGED <<pc, inflight, redis, opened, log, nSubmits, arg, result>>

\* "clear" button: lines 132-136; st.rerun() then runs the script with no input
Clear(s) ==
    /\ pc[s] = "idle"
    /\ messages' = [messages EXCEPT ![s] = <<>>]
    /\ out' = [out EXCEPT ![s] = Quiet]
    /\ ev' = [sid |-> s, op |-> "clear", input |-> ""]
    /\ UNCHANGED <<session_initialized, session_id, pc, inflight, redis, opened,
                   log, nSubmits, arg, result>>

\* variant: the user message is saved before the session is checked
SubmitRejected_saves_first(s, user_input) ==
    /\ pc[s] = "idle"
    /\ Truthy(PyStr(user_input))
    /\ ~session_valid(s)
    /\ messages' = [messages EXCEPT ![s] = Append(@, ChatMessage("user", user_input))]
    /\ out' = [out EXCEPT ![s] = [Quiet EXCEPT !.warnings = 1]]
    /\ ev' = [sid |-> s, op |-> "submit", input |-> user_input]
    /\ UNCHANGED <<session_initialized, session_id, pc, inflight, redis,
                   opened, log, nSubmits, arg, result>>

\* chat input while the session is not valid: lines 171-178
SubmitRejected(s, user_input) ==
    /\ pc[s] = "idle"
    /\ Truthy(PyStr(user_input))
    /\ ~session_valid(s)
    /\ out' = [out EXCEPT ![s] = [Quiet EXCEPT !.warnings = 1]]
    /\ ev' = [sid |-> s, op |-> "submit", input |-> user_input]
    /\ UNCHANGED <<session_initialized, session_id, messages, pc, inflight, redis,
                   opened, log, nSubmits, arg, result>>

\* variant: the user message is shown but not saved in the list
SubmitAccepted_shows_only(s, user_input) ==
    /\ pc[s] = "idle"
    /\ Truthy(PyStr(user_input))
    /\ session_valid(s)
    /\ nSubmits < MaxSubmits
    /\ LET history == get_redis_message_history(session_id[s])
       IN /\ opened' = opened \cup {history}
          /\ inflight' = [inflight EXCEPT ![s] =
                 [question |-> user_input, key |-> history.key,
                  token |-> session_id[s], history |-> Stored(history.key)]]
    /\ pc' = [pc EXCEPT ![s] = "invoking"]
    /\ out' = [out EXCEPT ![s] = [Quiet EXCEPT !.invokes = 1]]
    /\ ev' = [sid |-> s, op |-> "submit", input |-> user_input]
    /\ nSubmits' = nSubmits + 1
    /\ UNCHANGED <<session_initialized, session_id, messages, redis, log, arg, result>>

\* chat input in a valid session: lines 179-242, up to the point where
\* chain_with_memory.invoke has resolved and read the history and calls the model
SubmitAccepted(s, user_input) ==
    /\ pc[s] = "idle"
    /\ Truthy(PyStr(user_input))
    /\ session_valid(s)
    /\ nSubmits < MaxSubmits
    /\ LET history == get_redis_message_history(session_id[s])
       IN /\ messages' = [messages EXCEPT
                 ![s] = Append(@, ChatMessage("user", user_input))]
          /\ opened' = opened \cup {history}
          /\ inflight' = [inflight EXCEPT ![s] =
                 [question |-> user_input, key |-> history.key,
                  token |-> session_id[s], history |-> Stored(history.key)]]
    /\ pc' = [pc EXCEPT ![s] = "invoking"]
    /\ out' = [out EXCEPT ![s] = [Quiet EXCEPT !.invokes = 1]]
    /\ ev' = [sid |-> s, op |-> "submit", input |-> user_input]
    /\ nSubmits' = nSubmits + 1
    /\ UNCHANGED <<session_initialized, session_id, redis, log, arg, result>>

\* variant: the answer is assigned to the list instead of appended
InvokeReturn_assigns(s, content) ==
    /\ pc[s] = "invoking"
    /\ LET c == inflight[s]
       IN /\ redis' = Put(redis, c.key,
                 Stored(c.key) \o <<HumanMessage(c.question), AIMessage(content)>>)
          /\ log' = Put(log, c.token,
                 (IF c.token \in DOMAIN log THEN log[c.token] ELSE <<>>)
                     \o <<HumanMessage(c.question), AIMessage(content)>>)
    /\ messages' = [messages EXCEPT ![s] = <<ChatMessage("assistant", content)>>]
    /\ pc' = [pc EXCEPT ![s] = "idle"]
    /\ inflight' = [inflight EXCEPT ![s] = NoCall]
    /\ ev' = [sid |-> s, op |-> "return", input |-> content]
    /\ UNCHANGED <<session_initialized, session_id, out, opened, nSubmits, arg, result>>

\* the invocation returns: the chain stores question and answer in the history,
\* then line 246 appends the answer to the displayed list
InvokeReturn(s, content) ==
    /\ pc[s] = "invoking"
    /\ LET c == inflight[s]
       IN /\ redis' = Put(redis, c.key,
                 Stored(c.key) \o <<HumanMessage(c.question), AIMessage(content)>>)
          /\ log' = Put(log, c.token,
                 (IF c.token \in DOMAIN log THEN log[c.token] ELSE <<>>)
                     \o <<HumanMessage(c.question), AIMessage(content)>>)
    /\ messages' = [messages EXCEPT ![s] = Append(@, ChatMessage("assistant", content))]
    /\ pc' = [pc EXCEPT ![s] = "idle"]
    /\ inflight' = [inflight EXCEPT ![s] = NoCall]
    /\ ev' = [sid |-> s, op |-> "return", input |-> content]
    /\ UNCHANGED <<session_initialized, session_id, out, opened, nSubmits, arg, result>>

\* variant: a failed invocation is caught and tried again
InvokeRaise_retries(s) ==
    /\ pc[s] = "invoking"
    /\ out[s].invokes < 2
    /\ out' = [out EXCEPT ![s].invokes = @ + 1]
    /\ ev' = [sid |-> s, op |-> "raise", input |-> ""]
    /\ UNCHANGED <<session_initialized, session_id, messages, pc, inflight, redis,
                   opened, log, nSubmits, arg, result>>

\* the invocation raises (or the run is stopped while blocked in it): nothing
\* catches it, the script run ends there
InvokeRaise(s) ==
    /\ pc[s] = "invoking"
    /\ pc' = [pc EXCEPT ![s] = "idle"]
    /\ inflight' = [inflight EXCEPT ![s] = NoCall]
    /\ out' = [out EXCEPT ![s].raised = TRUE]
    /\ ev' = [sid |-> s, op |-> "raise", input |-> ""]
    /\ UNCHANGED <<session_initialized, session_id, messages, redis, opened, log,
                   nSubmits, arg, result>>

\* a script run with no widget input (a rerun): lines 68-77 assign a key only
\* while it is missing, and after the first run none is, so the state is kept
Rerun(s) ==
    /\ pc[s] = "idle"
    /\ out' = [out EXCEPT ![s] = Quiet]
    /\ ev' = [sid |-> s, op |-> "rerun", input |-> ""]
    /\ UNCHANGED <<session_initialized, session_id, messages, pc, inflight, redis,
                   opened, log, nSubmits, arg, result>>

Next ==
    \/ \E s \in Sessions, u \in UUIDs : Mint(s, u)
    \/ \E s \in Sessions : Clear(s)
    \/ \E s \in Sessions, t \in Texts : SubmitRejected(s, t)
    \/ \E s \in Sessions, t \in Texts : SubmitAccepted(s, t)
    \/ \E s \in Sessions, r \in Outputs : InvokeReturn(s, r)
    \/ \E s \in Sessions : InvokeRaise(s)
    \/ \E s \in Sessions : Rerun(s)

Spec == Init /\ [][Next]_vars

(***************************************************************************)
(* The history lookup exercised alone, as a unit test would call it: the   *)
(* argument is any session id value, the application state is untouched.   *)
(***************************************************************************)
RECURSIVE Strings(_)
Strings(n) ==
    IF n = 0 THEN {""}
    ELSE Strings(n - 1) \cup {t \o c : t \in Strings(n - 1), c \in Alphabet}

LookupArgs == {PyFalse} \cup {PyStr(t) : t \in Strings(MaxTokenLen)}

InitLookup ==
    /\ session_initialized = [s \in Sessions |-> FALSE]
    /\ session_id = [s \in Sessions |-> PyFalse]
    /\ messages = [s \in Sessions |-> init_conversation]
    /\ pc = [s \in Sessions |-> "idle"]
    /\ inflight = [s \in Sessions |-> NoCall]
    /\ out = [s \in Sessions |-> Quiet]
    /\ redis = <<>>
    /\ opened = {}
    /\ log = <<>>
    /\ ev = NoEvent
    /\ nSubmits = 0
    /\ arg \in LookupArgs
    /\ result = NotCalled

CallLookup ==
    /\ result = NotCalled
    /\ result' = get_redis_message_history(arg)
    /\ UNCHANGED <<app_vars, arg>>

NextLookup == CallLookup

SpecLookup == InitLookup /\ [][NextLookup]_vars

(***************************************************************************)
(* Properties.                                                             *)
(***************************************************************************)
\* the session has been initialized and holds a non-empty str as its id
HasToken(s) ==
    /\ session_initialized[s] = TRUE
    /\ session_id[s][1] = "str"
    /\ session_id[s][2] # ""

\* the step just taken is operation op of UI session s
Did(s, op) == ev'.sid = s /\ ev'.op = op

Last(q) == q[Len(q)]

IsPrefix(p, q) == Len(p) <= Len(q) /\ SubSeq(q, 1, Len(p)) = p

PyValues == {PyFalse, PyStr("")} \cup {PyStr(u) : u \in UUIDs}

\* ---------------------------------------------------------------- C1
C1_OnlyValidSessionsInvoke ==
    /\ \A s \in Sessions : pc[s] = "invoking" => HasToken(s)
    /\ \A h \in opened : h.session_id[1] = "str" /\ h.session_id[2] # ""

C1_RejectedStep ==
    \A s \in Sessions :
        (Did(s, "submit") /\ ~HasToken(s)) =>
            /\ messages' = messages
            /\ out'[s].warnings = 1
            /\ out'[s].invokes = 0
            /\ pc'[s] = "idle"
            /\ redis' = redis
            /\ opened' = opened

\* C1: a chat submission in a UI session that is not initialized or has no
\* session id appends nothing to the displayed list, emits exactly one warning
\* and calls neither the chain nor the history lookup; a chain invocation is
\* in progress, and a history was opened, only for an initialized session
\* with a non-empty id.
C1_GuardedSubmitBeforeMint ==
    [](C1_OnlyValidSessionsInvoke) /\ [][C1_RejectedStep]_vars

C1_Witness ==
    \E s \in Sessions :
        /\ ev.sid = s /\ ev.op = "submit"
        /\ ~session_initialized[s]
        /\ out[s].warnings = 1
        /\ messages[s] = <<>>
        /\ redis # <<>>

\* ---------------------------------------------------------------- C2
C2_UserTurnPending ==
    \A s \in Sessions :
        pc[s] = "invoking" =>
            /\ Len(messages[s]) >= 1
            /\ Last(messages[s]) = [role |-> "user", content |-> inflight[s].question]

C2_Steps ==
    \A s \in Sessions :
        /\ (Did(s, "submit") /\ HasToken(s)) =>
               /\ messages'[s] =
                      messages[s] \o <<[role |-> "user", content |-> ev'.input]>>
               /\ pc'[s] = "invoking"
               /\ inflight'[s].question = ev'.input
        /\ Did(s, "return") =>
               /\ pc[s] = "invoking"
               /\ messages'[s] =
                      messages[s] \o <<[role |-> "assistant", content |-> ev'.input]>>
               /\ pc'[s] = "idle"
        /\ (pc[s] = "invoking" /\ ev'.sid # s) => messages'[s] = messages[s]

\* C2: an accepted chat submission of text t appends {user, t} to the
\* displayed list and starts the invocation; nothing touches the list of that
\* UI session while the invocation runs; when it returns with content r,
\* {assistant, r} is appended right after the user turn.  The turns already
\* in the list stay as they were, in place.
C2_AcceptedSubmitAppendsTwo ==
    [](C2_UserTurnPending) /\ [][C2_Steps]_vars

C2_Witness ==
    \E s \in Sessions :
        /\ ev.sid = s /\ ev.op = "return"
        /\ Len(messages[s]) = 4
        /\ messages[s][3] = [role |-> "user", content |-> "hi"]
        /\ messages[s][4] = [role |-> "assistant", content |-> ev.input]

\* ---------------------------------------------------------------- C3
C3_ClearStep ==
    \A s \in Sessions :
        Did(s, "clear") =>
            /\ messages'[s] = <<>>
            /\ session_id'[s] = session_id[s]
            /\ session_initialized'[s] = session_initialized[s]
            /\ session_valid(s)' = session_valid(s)
            /\ redis' = redis

C3_SubmitStep ==
    \A s \in Sessions :
        (Did(s, "submit") /\ HasToken(s)) =>
            /\ pc'[s] = "invoking"
            /\ \E h \in opened' :
                   /\ h.session_id = session_id[s]
                   /\ h.key = inflight'[s].key

C3_OneKeyPerToken ==
    \A g \in opened, h \in opened : g.session_id = h.session_id => g.key = h.key

\* C3: the clear action empties the displayed list and leaves session_id,
\* session_initialized and the result of session_valid as they were; every
\* accepted submission, also one after a clear, starts an invocation with the
\* key of the history opened for the current session id, and all histories
\* opened for one session id have the same key.
C3_ClearKeepsSession ==
    [](C3_OneKeyPerToken) /\ [][C3_ClearStep /\ C3_SubmitStep]_vars

C3_Witness ==
    \E s \in Sessions :
        /\ \A t \in Sessions \ {s} : ~session_initialized[t]
        /\ pc[s] = "invoking"
        /\ Len(messages[s]) = 1
        /\ inflight[s].history # <<>>
        /\ DOMAIN log = {session_id[s]}

\* ---------------------------------------------------------------- C4
C4_Table ==
    \A i \in BOOLEAN, v \in PyValues :
        SessionValid(i, v) = (i /\ v[1] = "str" /\ v[2] # "")

C4_Steps ==
    \A s \in Sessions :
        /\ Did(s, "mint") => session_valid(s)'
        /\ (~session_valid(s) /\ ~Did(s, "mint")) => ~session_valid(s)'

\* C4: session_valid is true exactly when session_initialized is true and
\* session_id is a non-empty str; it is false in the initial state, stays
\* false over every step that is not a mint of that UI session, and is true
\* right after a mint.
C4_SessionValid ==
    /\ \A s \in Sessions : ~session_valid(s)
    /\ [](C4_Table /\ \A s \in Sessions : session_valid(s) = HasToken(s))
    /\ [][C4_Steps]_vars

C4_Witness ==
    \E s \in Sessions, t \in Sessions :
        /\ ev.sid = s /\ ev.op = "mint"
        /\ session_valid(s)
        /\ ~session_valid(t)
        /\ out[t].warnings = 1

\* ---------------------------------------------------------------- C5
C5_Steps ==
    \A s \in Sessions :
        /\ HasToken(s) =>
               /\ session_initialized'[s] = TRUE
               /\ session_id'[s] \in {PyStr(u) : u \in UUIDs}
        /\ Did(s, "mint") => session_id'[s] = PyStr(ev'.input)

\* C5: once a UI session is initialized and has a session id, every later
\* step (mint, clear, submission, return or failure of an invocation) leaves
\* it initialized with a non-empty session id; a later mint puts the newly
\* generated id in its place.
C5_NeverUninitializedAgain ==
    [][C5_Steps]_vars

C5_Witness ==
    \E s \in Sessions :
        /\ \A t \in Sessions \ {s} : ~session_initialized[t]
        /\ ev.sid = s /\ ev.op = "mint"
        /\ HasToken(s)
        /\ \E tok \in DOMAIN log : tok # session_id[s]

\* ---------------------------------------------------------------- C6
\* C6: an invocation in progress carries the key of the history opened for
\* the session id current in its UI session; distinct session ids have
\* distinct keys; what Redis holds under the key of a session id is exactly
\* the turns persisted while that id was current, in order; and the history
\* an invocation read is a prefix of those turns.
C6_SessionIsolation ==
    /\ \A s \in Sessions :
           pc[s] = "invoking" =>
               /\ inflight[s].token = session_id[s]
               /\ \E h \in opened :
                      h.session_id = session_id[s] /\ h.key = inflight[s].key
               /\ IsPrefix(inflight[s].history,
                           IF session_id[s] \in DOMAIN log
                           THEN log[session_id[s]] ELSE <<>>)
    /\ \A g \in opened, h \in opened : g.session_id # h.session_id => g.key # h.key
    /\ DOMAIN redis \subseteq {h.key : h \in opened}
    /\ \A tok \in DOMAIN log :
           \E h \in opened :
               /\ h.session_id = tok
               /\ h.key \in DOMAIN redis
               /\ redis[h.key] = log[tok]

C6_Witness ==
    /\ \E s \in Sessions, t \in Sessions :
           /\ s # t
           /\ HasToken(s) /\ HasToken(t)
           /\ session_id[s] # session_id[t]
           /\ session_id[s] \in DOMAIN log
           /\ session_id[t] \in DOMAIN log
           /\ log[session_id[s]] # log[session_id[t]]
    /\ ev.op = "return"

\* ---------------------------------------------------------------- C7
\* C7 as stated: the lookup called with an empty or absent session id fails
\* and returns no history handle.
C7_LookupRejectsEmpty ==
    (result # NotCalled /\ ~Truthy(arg)) => result.kind = "error"

\* C7, amended: the lookup does not validate its argument; for every session
\* id value, the empty and the absent one included, it returns a history
\* handle for that value and REDIS_URL, and for a str the key of the handle
\* is the prefix, a colon and the str verbatim, so the empty str gives the
\* bare prefix.
C7_LookupAcceptsAnything ==
    result # NotCalled =>
        /\ result.kind = "history"
        /\ result.session_id = arg
        /\ result.url = "redis://localhost:6379/0"
        /\ arg[1] = "str" => result.key = "message_store:" \o arg[2]

C7_Witness ==
    /\ arg = PyStr("")
    /\ result # NotCalled
    /\ result.kind = "history"
    /\ result.key = "message_store:"

\* ---------------------------------------------------------------- C8
C8_RaiseStep ==
    \A s \in Sessions :
        Did(s, "raise") =>
            /\ pc[s] = "invoking"
            /\ pc'[s] = "idle"
            /\ out'[s].raised = TRUE
            /\ out'[s].invokes = 1
            /\ messages'[s] = messages[s]
            /\ Last(messages'[s]) = [role |-> "user", content |-> inflight[s].question]
            /\ redis' = redis

\* C8: a script run invokes the chain at most once; when the invocation
\* fails the run ends with the exception, the chain is not invoked again,
\* nothing is stored, no assistant turn is appended and the user turn
\* appended before the call stays last in the displayed list.
C8_FailurePropagates ==
    []((\A s \in Sessions : out[s].invokes <= 1)) /\ [][C8_RaiseStep]_vars

C8_Witness ==
    \E s \in Sessions :
        /\ ev.sid = s /\ ev.op = "raise"
        /\ out[s].raised
        /\ Len(messages[s]) = 3
        /\ Last(messages[s]).role = "user"

\* ---------------------------------------------------------------- C9
C9_MintStep ==
    \A s \in Sessions :
        Did(s, "mint") =>
            /\ ev'.input \in UUIDs
            /\ session_id'[s] = PyStr(ev'.input)
            /\ session_initialized'[s] = TRUE
            /\ \A t \in Sessions \ {s} :
                   /\ session_id'[t] = session_id[t]
                   /\ session_initialized'[t] = session_initialized[t]
            /\ messages' = messages
            /\ redis' = redis
            /\ pc' = pc
            /\ inflight' = inflight

\* C9: a mint sets session_id of its UI session to the generated id and
\* session_initialized to true and changes nothing else: the displayed list
\* (of every UI session), the store and the invocations in progress are the
\* same after it as before, also when it replaces an earlier id.
C9_MintFrame ==
    [][C9_MintStep]_vars

C9_Witness ==
    \E s \in Sessions :
        /\ ev.sid = s /\ ev.op = "mint"
        /\ Len(messages[s]) >= 2
        /\ session_id[s] \notin DOMAIN log

\* ---------------------------------------------------------------- C10
\* C10: in the displayed list of every UI session, every assistant turn is
\* immediately preceded by a user turn (so the list never begins with an
\* assistant turn).
C10_AssistantFollowsUser ==
    \A s \in Sessions :
        \A i \in 1..Len(messages[s]) :
            messages[s][i].role = "assistant" =>
                /\ i > 1
                /\ messages[s][i - 1].role = "user"

C10_Witness ==
    \E s \in Sessions :
        /\ Len(messages[s]) = 3
        /\ messages[s][1].role = "user"
        /\ messages[s][2].role = "user"
        /\ messages[s][3].role = "assistant"

====
